---- MODULE Spec2Model ----
(***************************************************************************)
(* Model of the AQL ring-buffer producer in tinygrad/runtime/driver/hsa.py *)
(* (class AQLQueue) running against a hardware consumer that advances the  *)
(* read index.  The producer is a single thread; its position inside the   *)
(* handler it is executing is pc.  Every store the hardware can observe    *)
(* (slot payload, slot header, write-index register, doorbell register)    *)
(* is a step of its own, so the hardware interleaves between them.         *)
(***************************************************************************)
EXTENDS Integers, Sequences, FiniteSets, TLC

\* hw_queue.contents.size: capacity of the ring in packets
queue_size == 2
\* cap on the number of packets enqueued in one behaviour
MaxPackets == 5

AQL_PACKET_SIZE == 64
base_address == 4096
write_addr_end == base_address + (AQL_PACKET_SIZE * queue_size) - 1

EMPTY_SIGNAL == "EMPTY_SIGNAL"
DISPATCH_KERNEL_HEADER == "DISPATCH_KERNEL_HEADER"
BARRIER_HEADER == "BARRIER_HEADER"
VENDOR_HEADER == "VENDOR_SPECIFIC_HEADER"

VARIABLES
  pc,                      \* position of the producer thread
  op,                      \* the submission handler being (or last) executed
  in_wait,                 \* TRUE when the submit_barrier belongs to wait()
  need_signal,             \* argument need_signal of the current handler
  need_packets,            \* argument of _wait_queue
  rindex,                  \* local rindex of _wait_queue
  available_packet_slots,  \* self.available_packet_slots
  next_doorbell_index,     \* self.next_doorbell_index
  write_addr,              \* self.write_addr
  packet_cnt,              \* argument packet_cnt of blit_packets
  tail_blit_packets,       \* local of blit_packets
  rem_packet_cnt,          \* local of blit_packets
  copied,                  \* packets already copied by the running memmove
  hdr_done,                \* header of the packet being written is stored
  pay_done,                \* payload of the packet being written is stored
  ring,                    \* the ring memory, one record per slot
  read_index,              \* hardware read-index register
  hw_write_index,          \* hardware write-index register
  doorbell,                \* doorbell signal value
  enqueued,                \* number of packet images completely stored
  kernel_calls,            \* submit_kernel calls so far, -1 once another
                           \* handler has been called
  wait_signals,            \* argument wait_signals of submit_barrier (<<>> for None)
  ib_address,              \* argument ib_address of submit_pm4_ib
  ib_size,                 \* argument ib_size of submit_pm4_ib
  signal,                  \* local signal of the running handler
  result,                  \* outcome of the last handler call
  ctor,                    \* position of __init__
  hw_queue,                \* TRUE when the attribute self.hw_queue exists
  native,                  \* the native queue object
  destroy_calls,           \* calls of hsa_queue_destroy
  fn_in,                   \* arguments of the PM4 builder being applied
  fn_out,                  \* command words the PM4 builder returned
  blit_start               \* the queue as blit_packets found it

vars == <<pc, op, in_wait, need_signal, need_packets, rindex,
          available_packet_slots, next_doorbell_index, write_addr,
          packet_cnt, tail_blit_packets, rem_packet_cnt, copied,
          hdr_done, pay_done, ring, read_index, hw_write_index, doorbell,
          enqueued, kernel_calls, wait_signals, ib_address, ib_size, signal,
          result, ctor, hw_queue, native, destroy_calls, fn_in, fn_out, blit_start>>

\* arguments, locals and outcome of the running handler
call_vars == <<wait_signals, ib_address, ib_size, signal, result>>

\* construction and teardown of the queue object
life_vars == <<ctor, hw_queue, native, destroy_calls>>

\* the PM4 builder under evaluation
fn_vars == <<fn_in, fn_out>>

Usable_always == TRUE
\* the constructor has returned the object and it has not been finalized: only then
\* can a caller hold it and call a method
Usable == ctor = "done"

\* everything but the constructor's and finalizer's own state and the fields line 41-45 set
ctor_frame ==
  <<pc, op, in_wait, need_signal, need_packets, rindex, packet_cnt, tail_blit_packets,
    rem_packet_cnt, copied, hdr_done, pay_done, ring, read_index, hw_write_index,
    doorbell, enqueued, kernel_calls, wait_signals, ib_address, ib_size, signal,
    fn_in, fn_out, blit_start>>

\* the fields lines 41-45 set
field_vars == <<next_doorbell_index, write_addr, available_packet_slots>>

\* status codes a native call returns: HSA_STATUS_SUCCESS and an error
StatusValues == {0, 4096}

\* check(status) returns normally
check(status) == status = 0

HasHwQueue_always(h) == TRUE
\* hasattr(self, 'hw_queue')
HasHwQueue(h) == h

Min(a, b) == IF a < b THEN a ELSE b

\* index of the ring slot that starts at address addr
Slot(addr) == (addr - base_address) \div AQL_PACKET_SIZE

\* number of dependency-signal slots of a barrier-and packet
DEP_SIGNALS == 5
\* number of command words of amd_aql_pm4_packet_t
PM4_CMDS == 13

\* what a dependency-signal slot reads when the slot holds another kind of packet
ForeignSignal == "OTHER_FIELDS"
\* what a pm4_cmds word reads when the slot holds another kind of packet
ForeignWord == <<-1, -1>>

\* the fields of a slot behind its header; dep_signal and pm4_cmds are the two views of
\* the same bytes that hsa_barrier_and_packet_t and amd_aql_pm4_packet_t give
Body(kind, idx, sig) ==
  [kind |-> kind, idx |-> idx, completion_signal |-> sig,
   dep_signal |-> [i \in 1..DEP_SIGNALS |-> ForeignSignal],
   pm4_cmds |-> [i \in 1..PM4_CMDS |-> ForeignWord]]

\* a slot as hsa_queue_create leaves it
InvalidPacket == [header |-> "INVALID", body |-> Body("none", 0, EMPTY_SIGNAL)]

\* a slot after ctypes.memset(self.write_addr, 0, 64)
ZeroPacket ==
  [header |-> "ZERO",
   body |-> [Body("zero", 0, EMPTY_SIGNAL) EXCEPT !.pm4_cmds = [i \in 1..PM4_CMDS |-> <<0, 0>>]]]

\* packet i of the caller's buffer handed to blit_packets
SrcPacket(i) == [header |-> DISPATCH_KERNEL_HEADER, body |-> Body("raw", i, EMPTY_SIGNAL)]

\* signal = alloc_signal() if need_signal else EMPTY_SIGNAL
Signal(ns) == IF ns THEN "SIGNAL" ELSE EMPTY_SIGNAL

\* header each single-packet handler stores last
PacketHeader(o) ==
  CASE o = "submit_kernel"  -> DISPATCH_KERNEL_HEADER
    [] o = "submit_barrier" -> BARRIER_HEADER
    [] o = "submit_pm4_ib"  -> VENDOR_HEADER

NeedsWaitSingle_never(avail) == FALSE
\* if self.available_packet_slots == 0: self._wait_queue()
NeedsWaitSingle(avail) == avail = 0

\* if self.available_packet_slots < packet_cnt: self._wait_queue(packet_cnt)
NeedsWaitBlit(avail, cnt) == avail < cnt

Recompute_offbyone(ndi, ri) == queue_size - (ndi - ri) + 1
\* self.available_packet_slots = self.queue_size - (self.next_doorbell_index - rindex)
Recompute(ndi, ri) == queue_size - (ndi - ri)

NextWriteAddr_nowrap(addr) == addr + AQL_PACKET_SIZE
\* self.write_addr += AQL_PACKET_SIZE; wrap to base when past the end
NextWriteAddr(addr) ==
  IF addr + AQL_PACKET_SIZE > write_addr_end THEN base_address ELSE addr + AQL_PACKET_SIZE

\* min(((self.write_addr_end + 1) - self.write_addr) // AQL_PACKET_SIZE, packet_cnt)
TailBlitPackets(addr, cnt) == Min(((write_addr_end + 1) - addr) \div AQL_PACKET_SIZE, cnt)

RemSource_fromstart(tail, j) == j
\* packet_addr + AQL_PACKET_SIZE * tail_blit_packets: source of the second memmove
RemSource(tail, j) == tail + j

BlitDoorbellIndex_perpacket(ndi, cnt) == ndi + cnt + 1
\* self.next_doorbell_index += packet_cnt
BlitDoorbellIndex(ndi, cnt) == ndi + cnt

WaitReset_keep(avail) == avail
\* self.available_packet_slots = self.queue_size
WaitReset(avail) == queue_size

\* first store stage of a handler once space is available
WriteStage(o) ==
  CASE o = "submit_pm4_ib" -> "memset"
    [] o = "blit_packets"  -> "blit_split"
    [] OTHER               -> "fields"

\* A Python int is kept as five 16-bit limbs, least significant first, so that the
\* 32-bit and 64-bit fields of the command words are exact.
Limbs == 1..5

\* the int n, 0 <= n < 65536
Big(n) == [i \in Limbs |-> IF i = 1 THEN n ELSE 0]

RECURSIVE BitOr(_, _)
\* a | b on one limb
BitOr(a, b) ==
  IF a = 0 THEN b
  ELSE IF b = 0 THEN a
  ELSE (IF a % 2 = 1 \/ b % 2 = 1 THEN 1 ELSE 0) + 2 * BitOr(a \div 2, b \div 2)

\* a | b
BigOr(a, b) == [i \in Limbs |-> BitOr(a[i], b[i])]

\* v & 0xffffffff
Low32(v) == [i \in Limbs |-> IF i <= 2 THEN v[i] ELSE 0]

\* (v >> 32) & 0xffffffff
High32(v) == [i \in Limbs |-> IF i <= 2 THEN v[i + 2] ELSE 0]

\* v // 4
FloorDiv4(v) == [i \in Limbs |-> (v[i] \div 4) + (IF i < 5 THEN (v[i + 1] % 4) * 16384 ELSE 0)]

PM4_HDR_IT_OPCODE_INDIRECT_BUFFER == 63
\* 1 << 23
PM4_INDIRECT_BUFFER_VALID == [i \in Limbs |-> IF i = 2 THEN 128 ELSE 0]

PM4_HDR_IT_OPCODE_ACQUIRE_MEM == 88
PM4_ACQUIRE_MEM_GCR_CNTL_GLI_INV == 1
PM4_ACQUIRE_MEM_GCR_CNTL_GLK_INV == 128
PM4_ACQUIRE_MEM_GCR_CNTL_GLV_INV == 256
PM4_ACQUIRE_MEM_GCR_CNTL_GL1_INV == 512
PM4_ACQUIRE_MEM_GCR_CNTL_GL2_INV == 16384

\* 3 << 30 | ((cmd_size - 2) & 0x3FFF) << 16 | (((op) & 0xFF) << 8)
pm4_header(o, cmd_size) ==
  [i \in Limbs |-> CASE i = 1 -> (o % 256) * 256
                     [] i = 2 -> BitOr(49152, (cmd_size - 2) % 16384)
                     [] OTHER -> 0]

pm4_build_indirect_command_swapped(ib_addr, ib_sz) ==
  <<pm4_header(PM4_HDR_IT_OPCODE_INDIRECT_BUFFER, 4), High32(ib_addr), Low32(ib_addr),
    BigOr(FloorDiv4(ib_sz), PM4_INDIRECT_BUFFER_VALID)>>
pm4_build_indirect_command(ib_addr, ib_sz) ==
  <<pm4_header(PM4_HDR_IT_OPCODE_INDIRECT_BUFFER, 4), Low32(ib_addr), High32(ib_addr),
    BigOr(FloorDiv4(ib_sz), PM4_INDIRECT_BUFFER_VALID)>>

pm4_build_cache_inv_command_swapped(addr, sz) ==
  <<pm4_header(PM4_HDR_IT_OPCODE_ACQUIRE_MEM, 8), Big(0),
    Low32(addr), High32(addr), Low32(sz), High32(sz), Big(0),
    Big(BitOr(PM4_ACQUIRE_MEM_GCR_CNTL_GLI_INV, BitOr(PM4_ACQUIRE_MEM_GCR_CNTL_GLK_INV,
        BitOr(PM4_ACQUIRE_MEM_GCR_CNTL_GLV_INV, BitOr(PM4_ACQUIRE_MEM_GCR_CNTL_GL1_INV,
        PM4_ACQUIRE_MEM_GCR_CNTL_GL2_INV)))))>>
pm4_build_cache_inv_command(addr, sz) ==
  <<pm4_header(PM4_HDR_IT_OPCODE_ACQUIRE_MEM, 8), Big(0),
    Low32(sz), High32(sz), Low32(addr), High32(addr), Big(0),
    Big(BitOr(PM4_ACQUIRE_MEM_GCR_CNTL_GLI_INV, BitOr(PM4_ACQUIRE_MEM_GCR_CNTL_GLK_INV,
        BitOr(PM4_ACQUIRE_MEM_GCR_CNTL_GLV_INV, BitOr(PM4_ACQUIRE_MEM_GCR_CNTL_GL1_INV,
        PM4_ACQUIRE_MEM_GCR_CNTL_GL2_INV)))))>>

\* 64-bit addresses handed to the PM4 builders: 0, 0x1000, mixed limbs, 2^64 - 1, 2^32, ...
AddrValues ==
  {Big(0), Big(4096), <<1, 2, 3, 4, 0>>, <<65535, 65535, 65535, 65535, 0>>,
   <<0, 0, 1, 0, 0>>, <<65535, 0, 0, 32768, 0>>, <<4096, 0, 32768, 1, 0>>, <<0, 32768, 0, 0, 0>>}

\* sizes handed to the PM4 builders: 0, 4, 5, 0x2000, 2^25, 0xffffffffff (the default), ...
SizeValues ==
  {Big(0), Big(4), Big(5), Big(8192), <<0, 512, 0, 0, 0>>, <<65535, 65535, 255, 0, 0>>,
   <<4, 2, 3, 4, 0>>, <<65532, 65023, 0, 0, 0>>}

\* a c_uint32 field holding the int v
U32(v) == <<v[1], v[2]>>

AssertOk_any(ws) == TRUE
\* assert wait_signals is None or len(wait_signals) <= 5
AssertOk(ws) == Len(ws) <= 5

DepSignal_stale(ws, i, old) == IF Len(ws) > i THEN ws[i + 1] ELSE old
\* wait_signals[i] if wait_signals and len(wait_signals) > i else EMPTY_SIGNAL
DepSignal(ws, i, old) == IF Len(ws) > i THEN ws[i + 1] ELSE EMPTY_SIGNAL

RemainDwords_payload(n) == 13 - n
\* 14 - len(indirect_exec_cmd)
RemainDwords(n) == 14 - n

\* pm4_cmds after the command words and the remaining-dwords count are stored over old
Pm4Cmds(cmd, old) ==
  [i \in 1..PM4_CMDS |->
     IF i <= Len(cmd) THEN U32(cmd[i])
     ELSE IF i = Len(cmd) + 1 THEN U32(Big(RemainDwords(Len(cmd))))
     ELSE old[i]]

\* the fields each single-packet handler stores before the header, over the fields old
\* that the slot holds
PacketBody(o, sig, ws, a, z, old) ==
  CASE o = "submit_kernel"  -> Body("kernel_dispatch", 0, sig)
    [] o = "submit_barrier" ->
         [Body("barrier_and", 0, sig) EXCEPT
            !.dep_signal = [i \in 1..DEP_SIGNALS |-> DepSignal(ws, i - 1, old.dep_signal[i])]]
    [] o = "submit_pm4_ib"  ->
         [Body("pm4_ib", 0, sig) EXCEPT
            !.pm4_cmds = Pm4Cmds(pm4_build_indirect_command(a, z), old.pm4_cmds)]

\* signal handles a caller passes as dependencies
SignalNames == <<"S1", "S2", "S3", "S4", "S5", "S6">>

\* wait_signals lists: none, one, five and six signals in order, and two out of order
WaitSignalLists ==
  {SubSeq(SignalNames, 1, k) : k \in {0, 1, DEP_SIGNALS, DEP_SIGNALS + 1}} \cup {<<"S2", "S1">>}

\* (ib_address, ib_size) pairs handed to submit_pm4_ib
IbArgs == {<<Big(4096), Big(8192)>>, <<<<4096, 0, 32768, 1, 0>>, Big(64)>>}

\* no PM4 builder has been applied
NoArgs == [fn |-> "none", addr |-> Big(0), sz |-> Big(0)]

\* blit_packets is not running
NoSnapshot == [taken |-> FALSE]

Init ==
  /\ pc = "idle"
  /\ op = "none"
  /\ in_wait = FALSE
  /\ need_signal = FALSE
  /\ need_packets = 1
  /\ rindex = 0
  /\ available_packet_slots = queue_size
  /\ next_doorbell_index = 0
  /\ write_addr = base_address
  /\ packet_cnt = 0
  /\ tail_blit_packets = 0
  /\ rem_packet_cnt = 0
  /\ copied = 0
  /\ hdr_done = FALSE
  /\ pay_done = FALSE
  /\ ring = [s \in 0..(queue_size - 1) |-> InvalidPacket]
  /\ read_index = 0
  /\ hw_write_index = 0
  /\ doorbell = -1
  /\ enqueued = 0
  /\ kernel_calls = 0
  /\ wait_signals = <<>>
  /\ ib_address = Big(0)
  /\ ib_size = Big(0)
  /\ signal = "unset"
  /\ result = "none"
  /\ ctor = "done"
  /\ hw_queue = TRUE
  /\ native = "created"
  /\ destroy_calls = 0
  /\ fn_in = NoArgs
  /\ fn_out = <<>>
  /\ blit_start = NoSnapshot

\* entry of a single-packet handler: the availability test and the call of _wait_queue()
BeginSingle(o, ns, w, ws, a, z) ==
  /\ Usable
  /\ pc = "idle"
  /\ next_doorbell_index + 1 <= MaxPackets
  /\ op' = o
  /\ need_signal' = ns
  /\ wait_signals' = ws
  /\ ib_address' = a
  /\ ib_size' = z
  /\ result' = "none"
  /\ signal' = IF NeedsWaitSingle(available_packet_slots) THEN "unset" ELSE Signal(ns)
  /\ in_wait' = w
  /\ need_packets' = 1
  /\ hdr_done' = FALSE
  /\ pay_done' = FALSE
  /\ pc' = IF NeedsWaitSingle(available_packet_slots) THEN "wait_queue" ELSE WriteStage(o)
  /\ kernel_calls' = IF o = "submit_kernel" /\ ~ns /\ kernel_calls >= 0
                     THEN Min(kernel_calls + 1, MaxPackets + 1) ELSE -1
  /\ UNCHANGED <<rindex, available_packet_slots, next_doorbell_index, write_addr,
                 packet_cnt, tail_blit_packets, rem_packet_cnt, copied, ring,
                 read_index, hw_write_index, doorbell, enqueued>>
  /\ UNCHANGED <<life_vars, fn_vars, blit_start>>

submit_kernel ==
  \E ns \in BOOLEAN : BeginSingle("submit_kernel", ns, FALSE, <<>>, Big(0), Big(0))

\* submit_barrier(need_signal=ns): wait_signals keeps its default None
submit_barrier ==
  \E ns \in BOOLEAN : BeginSingle("submit_barrier", ns, FALSE, <<>>, Big(0), Big(0))

\* submit_pm4_ib(0x1000, 0x2000, need_signal=ns)
submit_pm4_ib ==
  \E ns \in BOOLEAN : BeginSingle("submit_pm4_ib", ns, FALSE, <<>>, Big(4096), Big(8192))

\* wait(): signal = self.submit_barrier(need_signal=True)
wait == BeginSingle("submit_barrier", TRUE, TRUE, <<>>, Big(0), Big(0))

\* submit_barrier(wait_signals=ws): the assert, then the handler
submit_barrier_signals ==
  \E ws \in WaitSignalLists :
    IF AssertOk(ws)
    THEN BeginSingle("submit_barrier", FALSE, FALSE, ws, Big(0), Big(0))
    ELSE /\ Usable
         /\ pc = "idle"
         /\ op' = "submit_barrier"
         /\ wait_signals' = ws
         /\ result' = "AssertionError"
         /\ UNCHANGED <<pc, in_wait, need_signal, need_packets, rindex,
                        available_packet_slots, next_doorbell_index, write_addr,
                        packet_cnt, tail_blit_packets, rem_packet_cnt, copied,
                        hdr_done, pay_done, ring, read_index, hw_write_index, doorbell,
                        enqueued, kernel_calls, ib_address, ib_size, signal,
                        life_vars, fn_vars, blit_start>>

\* submit_pm4_ib(ib_address, ib_size)
submit_pm4_ib_buffer ==
  \E args \in IbArgs :
    BeginSingle("submit_pm4_ib", FALSE, FALSE, <<>>, args[1], args[2])

\* one iteration of the poll loop of _wait_queue, and its exit test
WaitQueueIter ==
  /\ pc = "wait_queue"
  /\ rindex' = read_index
  /\ available_packet_slots' = Recompute(next_doorbell_index, rindex')
  /\ pc' = IF available_packet_slots' < need_packets THEN "wait_queue" ELSE WriteStage(op)
  /\ UNCHANGED <<op, in_wait, need_signal, need_packets, next_doorbell_index, write_addr,
                 packet_cnt, tail_blit_packets, rem_packet_cnt, copied, hdr_done, pay_done,
                 ring, read_index, hw_write_index, doorbell, enqueued, kernel_calls>>
  /\ signal' = IF pc' # "wait_queue" /\ op # "blit_packets" THEN Signal(need_signal) ELSE signal
  /\ UNCHANGED <<wait_signals, ib_address, ib_size, result, life_vars, fn_vars, blit_start>>

\* submit_pm4_ib: ctypes.memset(self.write_addr, 0, 64)
Memset ==
  /\ pc = "memset"
  /\ ring' = [ring EXCEPT ![Slot(write_addr)] = ZeroPacket]
  /\ pc' = "fields"
  /\ UNCHANGED <<op, in_wait, need_signal, need_packets, rindex, available_packet_slots,
                 next_doorbell_index, write_addr, packet_cnt, tail_blit_packets,
                 rem_packet_cnt, copied, hdr_done, pay_done, read_index, hw_write_index,
                 doorbell, enqueued, kernel_calls>>
  /\ UNCHANGED <<call_vars, life_vars, fn_vars, blit_start>>

\* the stores of every field of the packet except its header
StoreFields ==
  /\ pc = "fields"
  /\ ring' = [ring EXCEPT ![Slot(write_addr)].body =
                 PacketBody(op, signal, wait_signals, ib_address, ib_size, @)]
  /\ pay_done' = TRUE
  /\ pc' = "header"
  /\ UNCHANGED <<op, in_wait, need_signal, need_packets, rindex, available_packet_slots,
                 next_doorbell_index, write_addr, packet_cnt, tail_blit_packets,
                 rem_packet_cnt, copied, hdr_done, read_index, hw_write_index,
                 doorbell, enqueued, kernel_calls>>
  /\ UNCHANGED <<call_vars, life_vars, fn_vars, blit_start>>

\* packet.header = ...
StoreHeader ==
  /\ pc = "header"
  /\ ring' = [ring EXCEPT ![Slot(write_addr)].header = PacketHeader(op)]
  /\ hdr_done' = TRUE
  /\ enqueued' = enqueued + 1
  /\ pc' = "store_write_index"
  /\ UNCHANGED <<op, in_wait, need_signal, need_packets, rindex, available_packet_slots,
                 next_doorbell_index, write_addr, packet_cnt, tail_blit_packets,
                 rem_packet_cnt, copied, pay_done, read_index, hw_write_index,
                 doorbell, kernel_calls>>
  /\ UNCHANGED <<call_vars, life_vars, fn_vars, blit_start>>

\* _submit_packet: hsa_queue_store_write_index_relaxed(hw_queue, next_doorbell_index + 1)
StoreWriteIndex ==
  /\ pc = "store_write_index"
  /\ hw_write_index' = next_doorbell_index + 1
  /\ pc' = "store_doorbell"
  /\ UNCHANGED <<op, in_wait, need_signal, need_packets, rindex, available_packet_slots,
                 next_doorbell_index, write_addr, packet_cnt, tail_blit_packets,
                 rem_packet_cnt, copied, hdr_done, pay_done, ring, read_index,
                 doorbell, enqueued, kernel_calls>>
  /\ UNCHANGED <<call_vars, life_vars, fn_vars, blit_start>>

\* _submit_packet: the doorbell store, then the cursor, index and slot-count updates;
\* the handler returns and its arguments and locals are gone
StoreDoorbell ==
  /\ pc = "store_doorbell"
  /\ doorbell' = next_doorbell_index
  /\ write_addr' = NextWriteAddr(write_addr)
  /\ next_doorbell_index' = next_doorbell_index + 1
  /\ available_packet_slots' = available_packet_slots - 1
  /\ hdr_done' = FALSE
  /\ pay_done' = FALSE
  /\ pc' = IF in_wait THEN "signal_wait" ELSE "idle"
  /\ need_signal' = FALSE
  /\ rindex' = 0
  /\ UNCHANGED <<op, in_wait, need_packets, packet_cnt,
                 tail_blit_packets, rem_packet_cnt, copied, ring, read_index,
                 hw_write_index, enqueued, kernel_calls>>
  /\ wait_signals' = <<>>
  /\ ib_address' = Big(0)
  /\ ib_size' = Big(0)
  /\ signal' = IF in_wait THEN signal ELSE "unset"
  /\ UNCHANGED <<result, life_vars, fn_vars, blit_start>>

SignalWait_noblock ==
  /\ pc = "signal_wait"
  /\ available_packet_slots' = WaitReset(available_packet_slots)
  /\ pc' = "idle"
  /\ UNCHANGED <<op, in_wait, need_signal, need_packets, rindex, next_doorbell_index,
                 write_addr, packet_cnt, tail_blit_packets, rem_packet_cnt, copied,
                 hdr_done, pay_done, ring, read_index, hw_write_index, doorbell,
                 enqueued, kernel_calls>>
  /\ signal' = "unset"
  /\ UNCHANGED <<wait_signals, ib_address, ib_size, result, life_vars, fn_vars, blit_start>>
\* wait(): hsa_signal_wait_scacquire returns once the barrier has completed; then the reset
SignalWait ==
  /\ pc = "signal_wait"
  /\ read_index >= next_doorbell_index
  /\ available_packet_slots' = WaitReset(available_packet_slots)
  /\ pc' = "idle"
  /\ UNCHANGED <<op, in_wait, need_signal, need_packets, rindex, next_doorbell_index,
                 write_addr, packet_cnt, tail_blit_packets, rem_packet_cnt, copied,
                 hdr_done, pay_done, ring, read_index, hw_write_index, doorbell,
                 enqueued, kernel_calls>>
  /\ signal' = "unset"
  /\ UNCHANGED <<wait_signals, ib_address, ib_size, result, life_vars, fn_vars, blit_start>>

\* the queue as blit_packets(packet_addr, cnt) finds it
Snapshot(cnt) ==
  [taken |-> TRUE, cnt |-> cnt, ring |-> ring, write_addr |-> write_addr,
   next_doorbell_index |-> next_doorbell_index,
   available_packet_slots |-> available_packet_slots,
   hw_write_index |-> hw_write_index, doorbell |-> doorbell]

\* entry of blit_packets: the availability test and the call of _wait_queue(packet_cnt);
\* with snap the queue it finds is recorded
BlitEntry(snap) ==
  /\ Usable
  /\ pc = "idle"
  /\ \E cnt \in 0..queue_size :
       /\ next_doorbell_index + cnt <= MaxPackets
       /\ packet_cnt' = cnt
       /\ blit_start' = IF snap THEN Snapshot(cnt) ELSE blit_start
       /\ need_packets' = cnt
       /\ pc' = IF NeedsWaitBlit(available_packet_slots, cnt) THEN "wait_queue"
                ELSE WriteStage("blit_packets")
  /\ op' = "blit_packets"
  /\ in_wait' = FALSE
  /\ need_signal' = FALSE
  /\ hdr_done' = FALSE
  /\ pay_done' = FALSE
  /\ kernel_calls' = -1
  /\ UNCHANGED <<rindex, available_packet_slots, next_doorbell_index, write_addr,
                 tail_blit_packets, rem_packet_cnt, copied, ring, read_index,
                 hw_write_index, doorbell, enqueued>>
  /\ UNCHANGED <<call_vars, life_vars, fn_vars>>

blit_packets == BlitEntry(FALSE)

\* blit_packets, with the queue it finds recorded until it returns
blit_packets_snapshot == BlitEntry(TRUE)

\* blit_packets: tail_blit_packets and rem_packet_cnt
BlitSplit ==
  /\ pc = "blit_split"
  /\ tail_blit_packets' = TailBlitPackets(write_addr, packet_cnt)
  /\ rem_packet_cnt' = packet_cnt - tail_blit_packets'
  /\ copied' = 0
  /\ pc' = "blit_tail_copy"
  /\ UNCHANGED <<op, in_wait, need_signal, need_packets, rindex, available_packet_slots,
                 next_doorbell_index, write_addr, packet_cnt, hdr_done, pay_done, ring,
                 read_index, hw_write_index, doorbell, enqueued, kernel_calls>>
  /\ UNCHANGED <<call_vars, life_vars, fn_vars, blit_start>>

\* memmove stores one part (header bytes or the other bytes) of source packet src
\* into slot s; the order in which memmove stores the bytes of a packet is its own
CopyPart(s, src, part) ==
  /\ \/ /\ part = "header"
        /\ ~hdr_done
        /\ ring' = [ring EXCEPT ![s].header = SrcPacket(src).header]
     \/ /\ part = "body"
        /\ ~pay_done
        /\ ring' = [ring EXCEPT ![s].body = SrcPacket(src).body]
  /\ IF hdr_done \/ pay_done
     THEN /\ hdr_done' = FALSE
          /\ pay_done' = FALSE
          /\ copied' = copied + 1
          /\ enqueued' = enqueued + 1
     ELSE /\ hdr_done' = (part = "header")
          /\ pay_done' = (part = "body")
          /\ UNCHANGED <<copied, enqueued>>

\* ctypes.memmove(self.write_addr, packet_addr, AQL_PACKET_SIZE * tail_blit_packets)
BlitTailCopy ==
  /\ pc = "blit_tail_copy"
  /\ copied < tail_blit_packets
  /\ \E part \in {"header", "body"} :
       CopyPart(Slot(write_addr + AQL_PACKET_SIZE * copied), copied, part)
  /\ UNCHANGED <<pc, op, in_wait, need_signal, need_packets, rindex, available_packet_slots,
                 next_doorbell_index, write_addr, packet_cnt, tail_blit_packets,
                 rem_packet_cnt, read_index, hw_write_index, doorbell, kernel_calls>>
  /\ UNCHANGED <<call_vars, life_vars, fn_vars, blit_start>>

\* self.write_addr += AQL_PACKET_SIZE * tail_blit_packets, and the wrap to base
BlitWrap ==
  /\ pc = "blit_tail_copy"
  /\ copied = tail_blit_packets
  /\ write_addr' = IF write_addr + AQL_PACKET_SIZE * tail_blit_packets > write_addr_end
                   THEN base_address
                   ELSE write_addr + AQL_PACKET_SIZE * tail_blit_packets
  /\ copied' = 0
  /\ pc' = IF tail_blit_packets > 0 THEN "blit_rem_copy" ELSE "blit_publish"
  /\ UNCHANGED <<op, in_wait, need_signal, need_packets, rindex, available_packet_slots,
                 next_doorbell_index, packet_cnt, tail_blit_packets, rem_packet_cnt,
                 hdr_done, pay_done, ring, read_index, hw_write_index, doorbell,
                 enqueued, kernel_calls>>
  /\ UNCHANGED <<call_vars, life_vars, fn_vars, blit_start>>

\* ctypes.memmove(self.write_addr, packet_addr + AQL_PACKET_SIZE * tail_blit_packets,
\*                AQL_PACKET_SIZE * rem_packet_cnt)
BlitRemCopy ==
  /\ pc = "blit_rem_copy"
  /\ copied < rem_packet_cnt
  /\ \E part \in {"header", "body"} :
       CopyPart(Slot(write_addr + AQL_PACKET_SIZE * copied),
                RemSource(tail_blit_packets, copied), part)
  /\ UNCHANGED <<pc, op, in_wait, need_signal, need_packets, rindex, available_packet_slots,
                 next_doorbell_index, write_addr, packet_cnt, tail_blit_packets,
                 rem_packet_cnt, read_index, hw_write_index, doorbell, kernel_calls>>
  /\ UNCHANGED <<call_vars, life_vars, fn_vars, blit_start>>

\* self.write_addr += AQL_PACKET_SIZE * rem_packet_cnt
BlitRemDone ==
  /\ pc = "blit_rem_copy"
  /\ copied = rem_packet_cnt
  /\ write_addr' = write_addr + AQL_PACKET_SIZE * rem_packet_cnt
  /\ copied' = 0
  /\ pc' = "blit_publish"
  /\ UNCHANGED <<op, in_wait, need_signal, need_packets, rindex, available_packet_slots,
                 next_doorbell_index, packet_cnt, tail_blit_packets, rem_packet_cnt,
                 hdr_done, pay_done, ring, read_index, hw_write_index, doorbell,
                 enqueued, kernel_calls>>
  /\ UNCHANGED <<call_vars, life_vars, fn_vars, blit_start>>

\* self.next_doorbell_index += packet_cnt
\* hsa_queue_store_write_index_screlease(hw_queue, self.next_doorbell_index + 1)
BlitStoreWriteIndex ==
  /\ pc = "blit_publish"
  /\ next_doorbell_index' = BlitDoorbellIndex(next_doorbell_index, packet_cnt)
  /\ hw_write_index' = next_doorbell_index' + 1
  /\ pc' = "blit_doorbell"
  /\ UNCHANGED <<op, in_wait, need_signal, need_packets, rindex, available_packet_slots,
                 write_addr, packet_cnt, tail_blit_packets, rem_packet_cnt, copied,
                 hdr_done, pay_done, ring, read_index, doorbell, enqueued, kernel_calls>>
  /\ UNCHANGED <<call_vars, life_vars, fn_vars, blit_start>>

\* hsa_signal_store_screlease(doorbell_signal, self.next_doorbell_index);
\* blit_packets returns and its arguments and locals are gone
BlitStoreDoorbell ==
  /\ pc = "blit_doorbell"
  /\ doorbell' = next_doorbell_index
  /\ pc' = "idle"
  /\ need_packets' = 1
  /\ rindex' = 0
  /\ packet_cnt' = 0
  /\ tail_blit_packets' = 0
  /\ rem_packet_cnt' = 0
  /\ UNCHANGED <<op, in_wait, need_signal, available_packet_slots,
                 next_doorbell_index, write_addr, copied, hdr_done, pay_done, ring,
                 read_index, hw_write_index, enqueued, kernel_calls>>
  /\ blit_start' = NoSnapshot
  /\ UNCHANGED <<call_vars, life_vars, fn_vars>>

\* the hardware consumes the packet at the read index: one that has been stored
\* completely and that the write-index register covers
HwConsume ==
  /\ read_index < hw_write_index
  /\ read_index < enqueued
  /\ read_index' = read_index + 1
  /\ UNCHANGED <<pc, op, in_wait, need_signal, need_packets, rindex, available_packet_slots,
                 next_doorbell_index, write_addr, packet_cnt, tail_blit_packets,
                 rem_packet_cnt, copied, hdr_done, pay_done, ring, hw_write_index,
                 doorbell, enqueued, kernel_calls>>
  /\ UNCHANGED <<call_vars, life_vars, fn_vars, blit_start>>

Next ==
  \/ submit_kernel
  \/ submit_barrier
  \/ submit_pm4_ib
  \/ blit_packets
  \/ wait
  \/ WaitQueueIter
  \/ Memset
  \/ StoreFields
  \/ StoreHeader
  \/ StoreWriteIndex
  \/ StoreDoorbell
  \/ SignalWait
  \/ BlitSplit
  \/ BlitTailCopy
  \/ BlitWrap
  \/ BlitRemCopy
  \/ BlitRemDone
  \/ BlitStoreWriteIndex
  \/ BlitStoreDoorbell
  \/ HwConsume

Spec == Init /\ [][Next]_vars

\* the producer thread keeps running its poll loop, and the hardware keeps consuming
\* the packets that have been published to it
FairSpec == Spec /\ WF_vars(WaitQueueIter) /\ WF_vars(HwConsume)

\* a call of pm4_build_indirect_command(ib_addr, ib_sz)
BuildIndirect ==
  /\ \E a \in AddrValues, z \in SizeValues :
       /\ fn_in' = [fn |-> "indirect", addr |-> a, sz |-> z]
       /\ fn_out' = pm4_build_indirect_command(a, z)
  /\ UNCHANGED <<pc, op, in_wait, need_signal, need_packets, rindex, available_packet_slots,
                 next_doorbell_index, write_addr, packet_cnt, tail_blit_packets,
                 rem_packet_cnt, copied, hdr_done, pay_done, ring, read_index,
                 hw_write_index, doorbell, enqueued, kernel_calls,
                 call_vars, life_vars, blit_start>>

\* a call of pm4_build_cache_inv_command(addr, sz)
BuildCacheInv ==
  /\ \E a \in AddrValues, z \in SizeValues :
       /\ fn_in' = [fn |-> "cache_inv", addr |-> a, sz |-> z]
       /\ fn_out' = pm4_build_cache_inv_command(a, z)
  /\ UNCHANGED <<pc, op, in_wait, need_signal, need_packets, rindex, available_packet_slots,
                 next_doorbell_index, write_addr, packet_cnt, tail_blit_packets,
                 rem_packet_cnt, copied, hdr_done, pay_done, ring, read_index,
                 hw_write_index, doorbell, enqueued, kernel_calls,
                 call_vars, life_vars, blit_start>>

\* the object is allocated and __init__ has not run
LifeInit ==
  /\ pc = "idle"
  /\ op = "none"
  /\ in_wait = FALSE
  /\ need_signal = FALSE
  /\ need_packets = 1
  /\ rindex = 0
  /\ available_packet_slots = 0
  /\ next_doorbell_index = 0
  /\ write_addr = 0
  /\ packet_cnt = 0
  /\ tail_blit_packets = 0
  /\ rem_packet_cnt = 0
  /\ copied = 0
  /\ hdr_done = FALSE
  /\ pay_done = FALSE
  /\ ring = [s \in 0..(queue_size - 1) |-> InvalidPacket]
  /\ read_index = 0
  /\ hw_write_index = 0
  /\ doorbell = -1
  /\ enqueued = 0
  /\ kernel_calls = 0
  /\ wait_signals = <<>>
  /\ ib_address = Big(0)
  /\ ib_size = Big(0)
  /\ signal = "unset"
  /\ result = "none"
  /\ ctor = "get_info"
  /\ hw_queue = FALSE
  /\ native = "none"
  /\ destroy_calls = 0
  /\ fn_in = NoArgs
  /\ fn_out = <<>>
  /\ blit_start = NoSnapshot

\* __init__: check(hsa_agent_get_info(...))
CtorGetInfo ==
  /\ ctor = "get_info"
  /\ \E status \in StatusValues :
       /\ ctor' = IF check(status) THEN "create" ELSE "failed"
       /\ result' = IF check(status) THEN result ELSE "RuntimeError"
  /\ UNCHANGED <<hw_queue, native, destroy_calls, field_vars, ctor_frame>>

\* __init__: self.hw_queue = init_c_var(..., check(hsa_queue_create(...))): the attribute
\* is bound only when the callback returned
CtorCreate ==
  /\ ctor = "create"
  /\ \E status \in StatusValues :
       /\ ctor' = IF check(status) THEN "fields" ELSE "failed"
       /\ result' = IF check(status) THEN result ELSE "RuntimeError"
       /\ native' = IF status = 0 THEN "created" ELSE native
       /\ hw_queue' = check(status)
  /\ UNCHANGED <<destroy_calls, field_vars, ctor_frame>>

\* __init__: next_doorbell_index, queue_size, write_addr, write_addr_end,
\* available_packet_slots
CtorFields ==
  /\ ctor = "fields"
  /\ next_doorbell_index' = 0
  /\ write_addr' = base_address
  /\ available_packet_slots' = queue_size
  /\ ctor' = "set_priority"
  /\ UNCHANGED <<result, hw_queue, native, destroy_calls, ctor_frame>>

\* __init__: check(hsa_amd_queue_set_priority(...))
CtorSetPriority ==
  /\ ctor = "set_priority"
  /\ \E status \in StatusValues :
       /\ ctor' = IF check(status) THEN "set_profiling" ELSE "failed"
       /\ result' = IF check(status) THEN result ELSE "RuntimeError"
  /\ UNCHANGED <<hw_queue, native, destroy_calls, field_vars, ctor_frame>>

\* __init__: check(hsa_amd_profiling_set_profiler_enabled(...)), then the return
CtorSetProfiling ==
  /\ ctor = "set_profiling"
  /\ \E status \in StatusValues :
       /\ ctor' = IF check(status) THEN "done" ELSE "failed"
       /\ result' = IF check(status) THEN result ELSE "RuntimeError"
  /\ UNCHANGED <<hw_queue, native, destroy_calls, field_vars, ctor_frame>>

\* __del__, run when the last reference goes: after __init__ raised, or while no
\* method of the object is running
del ==
  /\ \/ ctor = "failed"
     \/ Usable /\ pc = "idle"
  /\ ctor' = "deleted"
  /\ IF HasHwQueue(hw_queue)
     THEN \E status \in StatusValues :
            /\ destroy_calls' = destroy_calls + 1
            /\ native' = IF status = 0 THEN "destroyed" ELSE "destroy_failed"
     ELSE UNCHANGED <<destroy_calls, native>>
  /\ UNCHANGED <<result, hw_queue, field_vars, ctor_frame>>

LifeNext ==
  \/ CtorGetInfo
  \/ CtorCreate
  \/ CtorFields
  \/ CtorSetPriority
  \/ CtorSetProfiling
  \/ del
  \/ Next

\* the queue from allocation through __init__, its use and __del__
LifeSpec == LifeInit /\ [][LifeNext]_vars

BatchNext ==
  \/ submit_kernel
  \/ submit_barrier
  \/ blit_packets_snapshot
  \/ WaitQueueIter
  \/ StoreFields
  \/ StoreHeader
  \/ StoreWriteIndex
  \/ StoreDoorbell
  \/ BlitSplit
  \/ BlitTailCopy
  \/ BlitWrap
  \/ BlitRemCopy
  \/ BlitRemDone
  \/ BlitStoreWriteIndex
  \/ BlitStoreDoorbell
  \/ HwConsume

\* single-packet and batch submissions, each batch remembering the queue it started from
BatchSpec == Init /\ [][BatchNext]_vars

EncodeNext ==
  \/ submit_barrier_signals
  \/ submit_pm4_ib_buffer
  \/ WaitQueueIter
  \/ Memset
  \/ StoreFields
  \/ StoreHeader
  \/ StoreWriteIndex
  \/ StoreDoorbell
  \/ HwConsume

\* the single-packet handlers called with dependency lists and indirect buffers
EncodeSpec == Init /\ [][EncodeNext]_vars

PM4Next ==
  \/ BuildIndirect
  \/ BuildCacheInv

\* the PM4 builders applied to arguments of the caller's choice
PM4Spec == Init /\ [][PM4Next]_vars

\* the producer is between handlers, or blocked in wait() after its barrier was submitted
Returned == pc \in {"idle", "signal_wait"}

\* stages in which a handler stores packet bytes into the ring
StoreStages == {"memset", "fields", "header", "blit_tail_copy", "blit_rem_copy"}

\* slots the running handler requires
RequiredSlots == IF op = "blit_packets" THEN packet_cnt ELSE 1

\* C1: after any sequence of submissions the write cursor lies on a slot boundary and
\* equals base_address + (next_doorbell_index mod queue_size) * AQL_PACKET_SIZE, so after
\* Q+k packets the next slot is base + (k mod Q) * stride
C1_CursorTracksIndex ==
  Returned =>
    /\ (write_addr - base_address) % AQL_PACKET_SIZE = 0
    /\ write_addr = base_address + (next_doorbell_index % queue_size) * AQL_PACKET_SIZE

C1_Witness ==
  /\ pc = "idle"
  /\ op = "blit_packets"
  /\ next_doorbell_index > queue_size
  /\ write_addr # base_address

\* C2: the available-slot count is never negative, and no handler stores packet bytes
\* while the slots it requires exceed the available-slot count
C2_NoWriteBeyondAvailable ==
  /\ available_packet_slots >= 0
  /\ pc \in StoreStages => RequiredSlots <= available_packet_slots

\* C3: after every publish the write-index register holds the number of packets enqueued,
\* the doorbell register holds the index of the last enqueued packet, and the write-index
\* register does not exceed the number of packets stored in the ring
C3_PublishedIndices ==
  (Returned /\ op # "none") =>
    /\ hw_write_index = next_doorbell_index
    /\ doorbell = next_doorbell_index - 1
    /\ hw_write_index <= enqueued

\* C4: for every packet the payload is stored before the header, the header before the
\* write-index register covers the packet, and the write-index update before the doorbell
\* is rung for the packet
C4_StoreOrder ==
  /\ hdr_done => pay_done
  /\ hw_write_index <= enqueued
  /\ doorbell < hw_write_index
  /\ doorbell < enqueued

\* C5: the header is the last field stored into a slot: the header of the packet being
\* written is never in place while other fields of that packet are still to be stored
C5_HeaderLast == ~(hdr_done /\ ~pay_done)

\* C6: next_doorbell_index starts at 0, changes only by +1 in a single-packet submission
\* and by +packet_cnt in one update of blit_packets, and between handlers equals the
\* number of packets enqueued
C6_DoorbellIndexCounts ==
  /\ next_doorbell_index = 0
  /\ [](Returned => next_doorbell_index = enqueued)
  /\ [][\/ next_doorbell_index' = next_doorbell_index
        \/ pc = "store_doorbell" /\ next_doorbell_index' = next_doorbell_index + 1
        \/ pc = "blit_publish" /\ next_doorbell_index' = next_doorbell_index + packet_cnt]_vars

C6_Witness ==
  /\ pc = "idle"
  /\ op = "blit_packets"
  /\ next_doorbell_index >= queue_size + 1
  /\ in_wait = FALSE
  /\ read_index >= 1

\* C7: on a fresh queue the first queue_size submit_kernel calls never enter the poll loop
\* and leave available_packet_slots at 0; the next call stays in the poll loop, storing
\* nothing, while the read index is 0, and proceeds once the read index has advanced
C7_FillThenBlock ==
  /\ []((kernel_calls \in 1..queue_size) => pc # "wait_queue")
  /\ []((kernel_calls = queue_size /\ pc = "idle") => available_packet_slots = 0)
  /\ []((kernel_calls = queue_size + 1 /\ read_index = 0) =>
          (pc = "wait_queue" /\ enqueued = queue_size /\ next_doorbell_index = queue_size))
  /\ ((kernel_calls = queue_size + 1 /\ pc = "wait_queue" /\ read_index >= 1)
        ~> (kernel_calls = queue_size + 1 /\ pc = "fields"))

C7_Witness ==
  /\ kernel_calls = queue_size + 1
  /\ pc = "header"
  /\ read_index >= 1
  /\ rindex >= 1

\* C8: blit_packets of packet_cnt <= queue_size packets starting at doorbell index d puts
\* packet i in slot (d + i) mod queue_size; a batch that reaches the buffer end copies
\* tail_n packets up to the end, wraps, copies the rest from base, and leaves the cursor
\* at base + (packet_cnt - tail_n) * stride
C8_BlitPlacement ==
  pc = "blit_publish" =>
    LET d == next_doorbell_index
        to_end == queue_size - (d % queue_size)
    IN /\ \A i \in 0..(packet_cnt - 1) : ring[(d + i) % queue_size] = SrcPacket(i)
       /\ packet_cnt >= to_end =>
            /\ tail_blit_packets = to_end
            /\ rem_packet_cnt = packet_cnt - to_end
            /\ write_addr = base_address + (packet_cnt - to_end) * AQL_PACKET_SIZE

C8_Witness ==
  /\ pc = "blit_publish"
  /\ next_doorbell_index % queue_size # 0
  /\ tail_blit_packets >= 1
  /\ rem_packet_cnt >= 1

\* C9: whenever wait() has returned, available_packet_slots equals queue_size
C9_WaitResets == (pc = "idle" /\ in_wait) => available_packet_slots = queue_size

C9_Witness ==
  /\ pc = "idle"
  /\ in_wait
  /\ next_doorbell_index >= 3

\* C10: _wait_queue(n) returns only when queue_size - (next_doorbell_index - rindex) >= n
\* for the read index it last loaded; it does not return while the read index is stalled
\* on a full queue; and when the hardware keeps consuming, a submission in the poll loop
\* with 1 <= n <= queue_size eventually returns
C10_PollReturns ==
  /\ [][(pc = "wait_queue" /\ pc' # "wait_queue") =>
          /\ rindex' = read_index
          /\ queue_size - (next_doorbell_index' - rindex') >= need_packets']_vars
  /\ [][(pc = "wait_queue" /\ next_doorbell_index - read_index >= queue_size) =>
          pc' = "wait_queue"]_vars
  /\ ((pc = "wait_queue" /\ need_packets \in 1..queue_size) ~> (pc # "wait_queue"))

C10_Witness ==
  /\ pc = "blit_split"
  /\ need_packets = queue_size
  /\ rindex >= 1
  /\ rindex = next_doorbell_index

\* word1 | word2 << 32 of a command
DecodeAddress(w) == BigOr(w[2], [i \in Limbs |-> IF i <= 2 THEN 0 ELSE w[3][i - 2]])

\* (word3 with the VALID bit 1 << 23 cleared) * 4 of a command
DecodeSize(w) ==
  LET c == [w[4] EXCEPT ![2] = IF (w[4][2] \div 128) % 2 = 1 THEN w[4][2] - 128 ELSE w[4][2]]
  IN [i \in Limbs |-> ((c[i] * 4) % 65536) + (IF i > 1 THEN c[i - 1] \div 16384 ELSE 0)]

\* C13 as claimed: decoding the output of pm4_build_indirect_command recovers the address
\* and the size in bytes for every (address, size)
C13_RoundTripAll ==
  fn_in.fn = "indirect" =>
    /\ DecodeAddress(fn_out) = fn_in.addr
    /\ DecodeSize(fn_out) = fn_in.sz

\* C13: for every 64-bit address and every size that is a multiple of 4 with bit 23
\* of size // 4 clear, decoding the output of pm4_build_indirect_command recovers the
\* address and the size in bytes
C13_RoundTripDwords ==
  (/\ fn_in.fn = "indirect"
   /\ fn_in.sz[1] % 4 = 0
   /\ (fn_in.sz[2] \div 512) % 2 = 0) =>
    /\ Len(fn_out) = 4
    /\ DecodeAddress(fn_out) = fn_in.addr
    /\ DecodeSize(fn_out) = fn_in.sz

C13_Witness ==
  /\ fn_in.fn = "indirect"
  /\ fn_in.addr = <<4096, 0, 32768, 1, 0>>
  /\ fn_in.sz = <<4, 2, 3, 4, 0>>
  /\ fn_out[3] = <<32768, 1, 0, 0, 0>>

\* C15: for every 64-bit addr and size pm4_build_cache_inv_command returns 8 words:
\* 0xC0065800, 0, low and high 32 bits of size, low and high 32 bits of addr, 0, and
\* the five invalidate flags at bits 0, 7, 8, 9 and 14
C15_CacheInvWords ==
  (fn_in.fn = "cache_inv" /\ fn_in.addr[5] = 0 /\ fn_in.sz[5] = 0) =>
    /\ Len(fn_out) = 8
    /\ fn_out[1] = <<22528, 49158, 0, 0, 0>>
    /\ fn_out[2] = <<0, 0, 0, 0, 0>>
    /\ fn_out[3] = <<fn_in.sz[1], fn_in.sz[2], 0, 0, 0>>
    /\ fn_out[4] = <<fn_in.sz[3], fn_in.sz[4], 0, 0, 0>>
    /\ fn_out[5] = <<fn_in.addr[1], fn_in.addr[2], 0, 0, 0>>
    /\ fn_out[6] = <<fn_in.addr[3], fn_in.addr[4], 0, 0, 0>>
    /\ fn_out[7] = <<0, 0, 0, 0, 0>>
    /\ fn_out[8] = <<1 + 128 + 256 + 512 + 16384, 0, 0, 0, 0>>

C15_Witness ==
  /\ fn_in.fn = "cache_inv"
  /\ fn_in.addr = <<4096, 0, 0, 0, 0>>
  /\ fn_in.sz = <<8192, 0, 0, 0, 0>>
  /\ fn_out[3] = <<8192, 0, 0, 0, 0>>
  /\ fn_out[5] = <<4096, 0, 0, 0, 0>>

\* the slot the running single-packet handler writes
CurrentPacket == ring[Slot(write_addr)]

\* the stages of a single-packet handler after its fields are stored
AfterFields == {"header", "store_write_index", "store_doorbell"}

\* C11: submit_barrier with more than 5 dependency signals fails at once: no handler
\* ever runs with such a list, no signal is allocated for it, and the call leaves the
\* ring, the write cursor, the doorbell index, the available-slot count, the
\* write-index register and the doorbell register as they were
C11_AssertRejects ==
  /\ [](Len(wait_signals) > 5 => (result = "AssertionError" /\ pc = "idle" /\ signal = "unset"))
  /\ [][Len(wait_signals') > 5 =>
          UNCHANGED <<ring, signal, write_addr, next_doorbell_index,
                      available_packet_slots, hw_write_index, doorbell, enqueued>>]_vars

C11_Witness ==
  /\ result = "AssertionError"
  /\ Len(wait_signals) = 6
  /\ op = "submit_barrier"
  /\ next_doorbell_index >= 1
  /\ doorbell = next_doorbell_index - 1

\* C12: for every list of k <= 5 wait signals the packet submit_barrier writes has
\* dependency-signal slots 0..k-1 equal to the supplied signals in order and slots
\* k..4 equal to the empty-signal sentinel, whatever the slot held before
C12_DepSlots ==
  (op = "submit_barrier" /\ pc \in AfterFields) =>
    \A i \in 1..5 :
      CurrentPacket.body.dep_signal[i] =
        IF i <= Len(wait_signals) THEN wait_signals[i] ELSE EMPTY_SIGNAL

C12_Witness ==
  /\ op = "submit_barrier"
  /\ pc = "store_doorbell"
  /\ wait_signals = <<"S2", "S1">>
  /\ next_doorbell_index >= queue_size
  /\ CurrentPacket.body.dep_signal[2] = "S1"
  /\ CurrentPacket.body.dep_signal[3] = EMPTY_SIGNAL

\* C14 as claimed: the slot is zero-filled first, the n command words occupy payload
\* words 0..n-1, payload word n is the count of unused words of the 13-word payload
\* (13 - n, or 13 - n - 1 without the count word itself), later words are zero
C14_CountOfPayload ==
  LET cmd == pm4_build_indirect_command(ib_address, ib_size)
      n == Len(cmd)
      words == CurrentPacket.body.pm4_cmds
  IN /\ (op = "submit_pm4_ib" /\ pc = "fields") => CurrentPacket = ZeroPacket
     /\ (op = "submit_pm4_ib" /\ pc \in AfterFields) =>
          /\ \A i \in 1..n : words[i] = <<cmd[i][1], cmd[i][2]>>
          /\ words[n + 1] \in {<<13 - n, 0>>, <<13 - n - 1, 0>>}
          /\ \A i \in (n + 2)..13 : words[i] = <<0, 0>>

\* C14: the slot is zero-filled first, the n = 4 command words of the indirect-buffer
\* command occupy payload words 0..n-1, payload word n equals 14 - n, the number of
\* 32-bit words of the 16-word packet that follow it, and later payload words are zero
C14_Pm4Words ==
  LET cmd == pm4_build_indirect_command(ib_address, ib_size)
      n == Len(cmd)
      words == CurrentPacket.body.pm4_cmds
  IN /\ (op = "submit_pm4_ib" /\ pc = "fields") => CurrentPacket = ZeroPacket
     /\ (op = "submit_pm4_ib" /\ pc \in AfterFields) =>
          /\ n = 4
          /\ \A i \in 1..n : words[i] = <<cmd[i][1], cmd[i][2]>>
          /\ words[n + 1] = <<14 - n, 0>>
          /\ \A i \in (n + 2)..13 : words[i] = <<0, 0>>

C14_Witness ==
  /\ op = "submit_pm4_ib"
  /\ pc = "header"
  /\ ib_address = <<4096, 0, 32768, 1, 0>>
  /\ next_doorbell_index >= queue_size
  /\ CurrentPacket.body.pm4_cmds[3] = <<32768, 1>>
  /\ CurrentPacket.body.pm4_cmds[5] = <<10, 0>>
  /\ CurrentPacket.body.pm4_cmds[13] = <<0, 0>>

\* C16: once the object is torn down, hsa_queue_destroy has been called exactly once if
\* the native queue was created (also when __init__ raised afterwards) and the native
\* queue is destroyed unless that call itself failed; it has never been called if
\* creation did not succeed
C16_DestroyIffCreated ==
  /\ destroy_calls <= 1
  /\ (destroy_calls = 1) => ctor = "deleted"
  /\ ctor = "deleted" =>
       IF native = "none" THEN destroy_calls = 0
       ELSE destroy_calls = 1 /\ native \in {"destroyed", "destroy_failed"}
  /\ (native = "none") <=> ~hw_queue

C16_Witness ==
  /\ ctor = "deleted"
  /\ result = "RuntimeError"
  /\ hw_queue
  /\ native = "destroyed"
  /\ destroy_calls = 1

\* wait() is running, from its call to its return
InWait == in_wait /\ pc # "idle"

\* wait() has published its drain barrier and blocks on the barrier's signal
Blocked == in_wait /\ pc = "signal_wait"

\* the lifecycle state of the queue, given when it counts as draining; "None" before
\* the native queue exists and when it never came to exist, "Failed" after __init__
\* raised with the native queue created
Lifecycle(draining) ==
  CASE ctor = "deleted" -> IF hw_queue THEN "Destroyed" ELSE "None"
    [] ctor = "done" -> IF draining THEN "Draining" ELSE "Active"
    [] ctor = "failed" -> IF hw_queue THEN "Failed" ELSE "None"
    [] ctor \in {"fields", "set_priority", "set_profiling"} -> "Created"
    [] OTHER -> "None"

\* the transitions of the lifecycle
LifecycleSteps ==
  {<<"None", "Created">>, <<"Created", "Active">>, <<"Active", "Draining">>,
   <<"Draining", "Active">>, <<"Active", "Destroyed">>, <<"Draining", "Destroyed">>,
   <<"Created", "Failed">>, <<"Failed", "Destroyed">>}

UnconsumedSlots == {k % queue_size : k \in read_index..(enqueued - 1)}

\* C19: whenever no handler is running, the cached available_packet_slots does not
\* exceed the true free count queue_size - (next_doorbell_index - read_index) and the
\* outstanding packets do not exceed queue_size; and no slot is ever stored to while
\* it holds a packet the hardware has not consumed
C19_CachedWithinFree ==
  /\ [](pc = "idle" =>
          available_packet_slots <= queue_size - (next_doorbell_index - read_index))
  /\ [](pc = "idle" => next_doorbell_index - read_index <= queue_size)
  /\ [][\A s \in 0..(queue_size - 1) : ring'[s] # ring[s] => s \notin UnconsumedSlots]_vars

\* the queue after one image is stored at the write cursor and _submit_packet has run
SubmitOne(q, img) ==
  [q EXCEPT !.ring = [q.ring EXCEPT ![Slot(q.write_addr)] = img],
            !.hw_write_index = q.next_doorbell_index + 1,
            !.doorbell = q.next_doorbell_index,
            !.write_addr = NextWriteAddr(q.write_addr),
            !.next_doorbell_index = q.next_doorbell_index + 1,
            !.available_packet_slots = q.available_packet_slots - 1]

\* the queue after single-packet submissions of images i .. q.cnt - 1 of the buffer
RECURSIVE SubmitMany(_, _)
SubmitMany(q, i) == IF i >= q.cnt THEN q ELSE SubmitMany(SubmitOne(q, SrcPacket(i)), i + 1)

\* C20: when blit_packets of N <= available_packet_slots packets returns, the ring,
\* the write cursor, next_doorbell_index, available_packet_slots, the write-index
\* register and the doorbell register are what N single-packet submissions of the
\* same images leave from the queue blit_packets started from
C20_BatchEqualsSingles ==
  [][(/\ pc = "blit_doorbell"
      /\ pc' = "idle"
      /\ blit_start.taken
      /\ blit_start.cnt <= blit_start.available_packet_slots) =>
       LET q == SubmitMany(blit_start, 0)
       IN /\ ring' = q.ring
          /\ write_addr' = q.write_addr
          /\ next_doorbell_index' = q.next_doorbell_index
          /\ available_packet_slots' = q.available_packet_slots
          /\ hw_write_index' = q.hw_write_index
          /\ doorbell' = q.doorbell]_vars
====
